---------------------------- MODULE Spec2Model ----------------------------
(***************************************************************************)
(* State-machine model of shorts_converter.py (ClipboardMonitor): the      *)
(* clipboard poller, the history store with its list widget and file, the  *)
(* statistics aggregation and the context menu of the history list.        *)
(*                                                                         *)
(* A Python str is a sequence of one-character strings, so that the        *)
(* regular expressions, strip, split, replace, strptime and strftime are   *)
(* computed character by character.                                        *)
(***************************************************************************)
EXTENDS Integers, Sequences, FiniteSets, TLC

(***************************************************************************)
(* Bounds of the model.                                                    *)
(***************************************************************************)
\* histories longer than this are not explored (the inputs below never
\* lead to one; only a program that records duplicates gets there)
MaxHistory == 3

(***************************************************************************)
(* Python values.                                                          *)
(***************************************************************************)
\* Python's None (a missing dict key read with .get): no str equals it,
\* since every element of a str is a single character.
None == <<"None">>

Lower == {"a","b","c","d","e","f","g","h","i","j","k","l","m",
          "n","o","p","q","r","s","t","u","v","w","x","y","z"}
Upper == {"A","B","C","D","E","F","G","H","I","J","K","L","M",
          "N","O","P","Q","R","S","T","U","V","W","X","Y","Z"}
DigitChar == <<"0","1","2","3","4","5","6","7","8","9">>
Digits == {DigitChar[k] : k \in 1..10}
DigitVal(c) == (CHOOSE k \in 1..10 : DigitChar[k] = c) - 1

\* the character class [a-zA-Z0-9_-] of the three patterns
IdChars == Lower \cup Upper \cup Digits \cup {"_", "-"}

\* the characters str.strip() removes
Whitespace == {" ", "\t", "\n", "\r", "\f"}

\* s has the literal lit at position i
LitAt(s, i, lit) ==
    /\ i >= 1
    /\ i + Len(lit) - 1 <= Len(s)
    /\ \A k \in 1..Len(lit) : s[i + k - 1] = lit[k]

\* str.strip()
RECURSIVE LStrip(_)
LStrip(s) == IF s # <<>> /\ Head(s) \in Whitespace THEN LStrip(Tail(s)) ELSE s
RECURSIVE RStrip(_)
RStrip(s) ==
    IF s # <<>> /\ s[Len(s)] \in Whitespace
    THEN RStrip(SubSeq(s, 1, Len(s) - 1))
    ELSE s
strip(s) == RStrip(LStrip(s))

\* str.replace(old, new): every non-overlapping occurrence, left to right
RECURSIVE replace_from(_, _, _, _)
replace_from(s, i, old, new) ==
    IF i > Len(s) THEN <<>>
    ELSE IF LitAt(s, i, old)
         THEN new \o replace_from(s, i + Len(old), old, new)
         ELSE <<s[i]>> \o replace_from(s, i + 1, old, new)
replace(s, old, new) == replace_from(s, 1, old, new)

\* str.split(sep)[-1]: what follows the last separator found scanning
\* left to right without overlap (the whole string when there is none)
RECURSIVE split_last_from(_, _, _, _)
split_last_from(s, i, start, sep) ==
    IF i > Len(s) THEN SubSeq(s, start, Len(s))
    ELSE IF LitAt(s, i, sep)
         THEN split_last_from(s, i + Len(sep), i + Len(sep), sep)
         ELSE split_last_from(s, i + 1, start, sep)
split_last(s, sep) == split_last_from(s, 1, 1, sep)

(***************************************************************************)
(* The three patterns of check_clipboard and the substitution of           *)
(* convert_shorts_url.  A matcher returns the position after the match     *)
(* (re.match anchors at the start of the string only), or 0.               *)
(***************************************************************************)
L_http     == <<"h","t","t","p">>
L_s        == <<"s">>
L_colon    == <<":","/","/">>
L_www      == <<"w","w","w",".">>
L_youtube  == <<"y","o","u","t","u","b","e",".","c","o","m","/">>
L_shorts   == <<"s","h","o","r","t","s","/">>
L_watch    == <<"w","a","t","c","h","?","v","=">>
L_youtu_be == <<"y","o","u","t","u",".","b","e","/">>
L_canonical == <<"h","t","t","p","s",":","/","/","w","w","w",".">> \o L_youtube \o L_watch
L_sep      == <<" ","-"," ">>
L_suffix   == <<" ","-"," ","Y","o","u","T","u","b","e">>
L_unknown  == <<"U","n","k","n","o","w","n"," ","T","i","t","l","e">>

\* [a-zA-Z0-9_-]+ from position i, greedy: position after the run, 0 if empty
RECURSIVE IdRunEnd(_, _)
IdRunEnd(s, i) ==
    IF i <= Len(s) /\ s[i] \in IdChars
    THEN LET e == IdRunEnd(s, i + 1) IN IF e = 0 THEN i + 1 ELSE e
    ELSE 0

\* https?://  at the start
SchemeEnd(s) ==
    IF LitAt(s, 1, L_http)
    THEN LET j == IF LitAt(s, 5, L_s) THEN 6 ELSE 5
         IN  IF LitAt(s, j, L_colon) THEN j + 3 ELSE 0
    ELSE 0

\* https?://(www\.)?youtube\.com/  at the start
HostEnd(s) ==
    LET i == SchemeEnd(s)
        j == IF i # 0 /\ LitAt(s, i, L_www) THEN i + 4 ELSE i
    IN  IF i # 0 /\ LitAt(s, j, L_youtube) THEN j + Len(L_youtube) ELSE 0

shorts_pattern(s) ==
    LET h == HostEnd(s)
    IN  IF h # 0 /\ LitAt(s, h, L_shorts) THEN IdRunEnd(s, h + Len(L_shorts)) ELSE 0

normal_pattern(s) ==
    LET h == HostEnd(s)
    IN  IF h # 0 /\ LitAt(s, h, L_watch) THEN IdRunEnd(s, h + Len(L_watch)) ELSE 0

youtu_pattern(s) ==
    LET i == SchemeEnd(s)
    IN  IF i # 0 /\ LitAt(s, i, L_youtu_be) THEN IdRunEnd(s, i + Len(L_youtu_be)) ELSE 0

\* match.group(1) of youtu_pattern
youtu_group1(s) ==
    SubSeq(s, SchemeEnd(s) + Len(L_youtu_be), youtu_pattern(s) - 1)

\* re.sub(r"youtube\.com/shorts/([a-zA-Z0-9_-]+)", r"youtube.com/watch?v=\1", url):
\* every match in the string is replaced, scanning left to right
RECURSIVE re_sub_from(_, _)
re_sub_from(s, i) ==
    IF i > Len(s) THEN <<>>
    ELSE LET e == IF LitAt(s, i, L_youtube \o L_shorts)
                  THEN IdRunEnd(s, i + Len(L_youtube) + Len(L_shorts))
                  ELSE 0
         IN  IF e # 0
             THEN L_youtube \o L_watch
                    \o SubSeq(s, i + Len(L_youtube) + Len(L_shorts), e - 1)
                    \o re_sub_from(s, e)
             ELSE <<s[i]>> \o re_sub_from(s, i + 1)

\* fault: re.sub(..., count=1), only the first match is replaced
convert_first_only(url) ==
    LET p == CHOOSE p \in 1..Len(url) :
                 /\ LitAt(url, p, L_youtube \o L_shorts)
                 /\ \A q \in 1..(p - 1) : ~LitAt(url, q, L_youtube \o L_shorts)
    IN  SubSeq(url, 1, p + Len(L_youtube) - 1) \o L_watch
          \o SubSeq(url, p + Len(L_youtube) + Len(L_shorts), Len(url))

convert_shorts_url(url) == re_sub_from(url, 1)

(***************************************************************************)
(* datetime: strptime(date_str, "%Y-%m-%d"), strftime("%Y-%m-%d") and      *)
(* isocalendar(), as the standard library computes them.  A datetime is a  *)
(* record of year, month and day (the time of day is never read).          *)
(***************************************************************************)
IsLeap(y) == y % 4 = 0 /\ (y % 100 # 0 \/ y % 400 = 0)

DaysInMonth(y, m) ==
    IF m = 2 THEN (IF IsLeap(y) THEN 29 ELSE 28)
    ELSE IF m \in {4, 6, 9, 11} THEN 30 ELSE 31

RECURSIVE DaysBeforeMonth(_, _)
DaysBeforeMonth(y, m) ==
    IF m = 1 THEN 0 ELSE DaysBeforeMonth(y, m - 1) + DaysInMonth(y, m - 1)

\* date.toordinal(): 0001-01-01 is day 1
ymd2ord(y, m, d) ==
    (y - 1) * 365 + ((y - 1) \div 4) - ((y - 1) \div 100) + ((y - 1) \div 400)
      + DaysBeforeMonth(y, m) + d

\* ordinal of the Monday that starts ISO week 1 of the year
isoweek1monday(year) ==
    LET firstday     == ymd2ord(year, 1, 1)
        firstweekday == (firstday + 6) % 7
        week1monday  == firstday - firstweekday
    IN  IF firstweekday > 3 THEN week1monday + 7 ELSE week1monday

\* dt.isocalendar()[:2], the pair (ISO year, ISO week)
isocalendar(dt) ==
    LET today == ymd2ord(dt.year, dt.month, dt.day)
        diff  == today - isoweek1monday(dt.year)
    IN  IF diff < 0
        THEN <<dt.year - 1, ((today - isoweek1monday(dt.year - 1)) \div 7) + 1>>
        ELSE IF diff \div 7 >= 52 /\ today >= isoweek1monday(dt.year + 1)
             THEN <<dt.year + 1, 1>>
             ELSE <<dt.year, (diff \div 7) + 1>>

AllDigits(s) == \A k \in 1..Len(s) : s[k] \in Digits

RECURSIVE Number(_)
Number(s) ==
    IF s = <<>> THEN 0
    ELSE 10 * Number(SubSeq(s, 1, Len(s) - 1)) + DigitVal(s[Len(s)])

\* the directive %m:  1[0-2]|0[1-9]|[1-9]
MonthField(f) ==
    \/ Len(f) = 2 /\ f[1] = "1" /\ f[2] \in {"0", "1", "2"}
    \/ Len(f) = 2 /\ f[1] = "0" /\ f[2] \in Digits \ {"0"}
    \/ Len(f) = 1 /\ f[1] \in Digits \ {"0"}

\* the directive %d:  3[0-1]|[1-2]\d|0[1-9]|[1-9]| [1-9]
DayField(f) ==
    \/ Len(f) = 2 /\ f[1] = "3" /\ f[2] \in {"0", "1"}
    \/ Len(f) = 2 /\ f[1] \in {"1", "2"} /\ f[2] \in Digits
    \/ Len(f) = 2 /\ f[1] \in {"0", " "} /\ f[2] \in Digits \ {"0"}
    \/ Len(f) = 1 /\ f[1] \in Digits \ {"0"}

ValueError == [ok |-> FALSE, year |-> 0, month |-> 0, day |-> 0]

\* datetime.strptime(s, "%Y-%m-%d"); ValueError stands for the exception
strptime(s) ==
    LET n    == Len(s)
        dash == IF n >= 7 /\ s[7] = "-" THEN 7
                ELSE IF n >= 8 /\ s[8] = "-" THEN 8 ELSE 0
    IN  IF n >= 5 /\ AllDigits(SubSeq(s, 1, 4)) /\ s[5] = "-" /\ dash # 0
           /\ MonthField(SubSeq(s, 6, dash - 1))
           /\ DayField(SubSeq(s, dash + 1, n))
        THEN LET y  == Number(SubSeq(s, 1, 4))
                 m  == Number(SubSeq(s, 6, dash - 1))
                 df == SubSeq(s, dash + 1, n)
                 d  == Number(IF df[1] = " " THEN Tail(df) ELSE df)
             IN  IF y >= 1 /\ d <= DaysInMonth(y, m)
                 THEN [ok |-> TRUE, year |-> y, month |-> m, day |-> d]
                 ELSE ValueError
        ELSE ValueError

RECURSIVE Decimal(_)
Decimal(n) ==
    IF n < 10 THEN <<DigitChar[n + 1]>>
    ELSE Decimal(n \div 10) \o <<DigitChar[(n % 10) + 1]>>

Pad2(n) == IF n < 10 THEN <<"0">> \o Decimal(n) ELSE Decimal(n)

\* dt.strftime('%Y-%m-%d')
strftime(dt) ==
    Decimal(dt.year) \o <<"-">> \o Pad2(dt.month) \o <<"-">> \o Pad2(dt.day)

(***************************************************************************)
(* Statistics.  A JSON number x with two decimals is the integer 100 * x.  *)
(***************************************************************************)
\* 100 * round(n / d, 2): Python rounds to the nearest hundredth, halves to
\* the even one (a half occurs only when 8 divides d, where n / d is exact)
round2(n, d) ==
    LET q == (100 * n) \div d
        r == (100 * n) % d
    IN  IF 2 * r > d \/ (2 * r = d /\ q % 2 = 1) THEN q + 1 ELSE q

\* collections.Counter(keys): the (key, count) items in first-seen order
RECURSIVE Counter(_)
Counter(keys) ==
    IF keys = <<>> THEN <<>>
    ELSE LET rest == Counter(SubSeq(keys, 1, Len(keys) - 1))
             k    == keys[Len(keys)]
         IN  IF \E j \in 1..Len(rest) : rest[j][1] = k
             THEN [j \in 1..Len(rest) |->
                     IF rest[j][1] = k THEN <<k, rest[j][2] + 1>> ELSE rest[j]]
             ELSE Append(rest, <<k, 1>>)

\* Counter.most_common(1)[0] is max(items, key=count): the first item, in
\* first-seen order, whose count no other item exceeds
RECURSIVE max_from(_, _, _)
max_from(items, i, best) ==
    IF i > Len(items) THEN best
    ELSE max_from(items, i + 1, IF items[i][2] > best[2] THEN items[i] ELSE best)
\* fault: among equal counts the item seen last wins
most_common1_last(items) ==
    LET top == CHOOSE j \in 1..Len(items) :
                   /\ \A k \in 1..Len(items) : items[k][2] <= items[j][2]
                   /\ \A k \in (j + 1)..Len(items) : items[k][2] < items[j][2]
    IN  items[top]

most_common1(items) == max_from(items, 2, items[1])

RECURSIVE parse_dates(_)
parse_dates(entries) ==
    IF entries = <<>> THEN <<>>
    ELSE LET date_str == Head(entries).date
             dt       == strptime(date_str)
         IN  IF date_str # None /\ date_str # <<>> /\ dt.ok
             THEN <<dt>> \o parse_dates(Tail(entries))
             ELSE parse_dates(Tail(entries))

SeqRange(s) == {s[k] : k \in 1..Len(s)}

\* the None that compute_stats_for returns (a record, to be comparable with
\* a stats dict)
NoStats == [none |-> TRUE]

compute_stats_for(entries) ==
    LET valid_dates  == parse_dates(entries)
        date_strings == [k \in 1..Len(valid_dates) |-> strftime(valid_dates[k])]
        day_counter  == Counter(date_strings)
        top          == most_common1(day_counter)
        total_conversions == Len(valid_dates)
        unique_days   == SeqRange(date_strings)
        unique_weeks  == {isocalendar(valid_dates[k]) : k \in 1..Len(valid_dates)}
        unique_months == {<<valid_dates[k].year, valid_dates[k].month>> :
                             k \in 1..Len(valid_dates)}
    IN  IF valid_dates = <<>> THEN NoStats
        ELSE [top_day     |-> top[1],
              max_count   |-> top[2],
              daily_avg   |-> round2(total_conversions, Cardinality(unique_days)),
              weekly_avg  |-> round2(total_conversions, Cardinality(unique_weeks)),
              monthly_avg |-> round2(total_conversions, Cardinality(unique_months))]

(***************************************************************************)
(* The environment: what the user copies, what the network answers, what   *)
(* the history file holds at startup, and the days the clock shows.        *)
(***************************************************************************)
Id_abc123 == <<"a","b","c","1","2","3">>
L_https   == L_http \o L_s \o L_colon

\* " https://www.youtube.com/shorts/abc123\n"
Text_shorts == <<" ">> \o L_https \o L_www \o L_youtube \o L_shorts \o Id_abc123 \o <<"\n">>
\* "http://youtu.be/abc123"
Text_youtu  == L_http \o L_colon \o L_youtu_be \o Id_abc123
\* "https://www.youtube.com/watch?v=abc123\t"
Text_watch  == L_canonical \o Id_abc123 \o <<"\t">>
\* "http://youtube.com/shorts/x_-9 - youtube.com/shorts/y"
Text_shorts2 == L_http \o L_colon \o L_youtube \o L_shorts \o <<"x","_","-","9">>
                  \o L_sep \o L_youtube \o L_shorts \o <<"y">>
\* "https://www.youtube.com/shorts/" (no video id)
Text_none   == L_https \o L_www \o L_youtube \o L_shorts

ClipboardTexts ==
    {Text_shorts, Text_youtu, Text_watch, Text_shorts2, Text_none}

\* what requests.get and BeautifulSoup make of the page: an exception in
\* either, no <title> element, or a <title> with the given text
FetchOutcomes ==
    {[kind |-> "network_error", title |-> <<>>],
     [kind |-> "parse_error",   title |-> <<>>],
     [kind |-> "no_title",      title |-> <<>>],
     [kind |-> "ok",            title |-> <<"T">> \o L_suffix]}

\* the days datetime.today() shows, in order
Calendar == <<[year |-> 2024, month |-> 1, day |-> 1],
              [year |-> 2024, month |-> 1, day |-> 8]>>

\* a history.json written by earlier runs (and edited by hand: one date is
\* not zero-padded, one is no date)
LoadedHistory ==
    <<[title |-> <<"B">>, url |-> convert_shorts_url(strip(Text_shorts2)),
       date |-> <<"2","0","2","4","-","1","-","1">>, type |-> "shorts"],
      [title |-> <<"A">>, url |-> L_canonical \o Id_abc123,
       date |-> <<"2","0","2","3","-","1","2","-","3","1">>, type |-> "shorts"],
      [title |-> <<"C">>, url |-> L_canonical \o <<"c">>,
       date |-> <<"b","a","d">>, type |-> "regular"]>>

\* the file system at startup: no history.json, or one with LoadedHistory
MissingFile == [exists |-> FALSE, complete |-> FALSE, records |-> <<>>]
StartupFiles ==
    {MissingFile, [exists |-> TRUE, complete |-> TRUE, records |-> LoadedHistory]}

(***************************************************************************)
(* The program.                                                            *)
(***************************************************************************)
VARIABLES
    clipboard,               \* the text on the system clipboard
    last_clipboard_content,  \* self.last_clipboard_content
    history,                 \* self.history
    history_list,            \* the item texts of self.history_list
    history_file,            \* history.json
    stats_file,              \* stats.json
    stats_widgets,           \* the stats of the two StatsCategoryWidgets
    today,                   \* position of datetime.today() in Calendar
    appended_since_copy,     \* records appended since the last user write
    fetched_since_copy,      \* title fetches made since the last user write
    last_op,                 \* the handler that ran last: a tick with the
                             \* outcome of its fetch, a Delete with its
                             \* row, or any other
    pc                       \* where the running handler stands

vars == <<clipboard, last_clipboard_content, history, history_list,
          history_file, stats_file, stats_widgets, today,
          appended_since_copy, fetched_since_copy, last_op, pc>>

\* entry.get(key, default)
Get(value, default) == IF value = None THEN default ELSE value

\* fault: the file is written from the history as it was before the change
json_dump_stale(h) ==
    [exists |-> TRUE, complete |-> TRUE, records |-> SubSeq(h, 1, Len(h) - 1)]

\* json.dump(self.history, file): the file holds the whole list
json_dump(h) == [exists |-> TRUE, complete |-> TRUE, records |-> h]

\* load_history: the records, and the list items built from them; a
\* missing file gives the empty history
load_history(file) == IF file.exists THEN file.records ELSE <<>>

item_text(title, url) == title \o L_sep \o url

load_items(h) ==
    [k \in 1..Len(h) |-> item_text(Get(h[k].title, L_unknown), Get(h[k].url, <<>>))]

\* fault: a failed fetch gives an empty title instead of the fallback
get_video_title_empty(url, outcome) ==
    IF outcome.kind = "ok" THEN replace(outcome.title, L_suffix, <<>>) ELSE <<>>

\* get_video_title: the <title> text without " - YouTube", and
\* "Unknown Title" when there is no <title> or anything raised
get_video_title(url, outcome) ==
    IF outcome.kind = "ok" THEN replace(outcome.title, L_suffix, <<>>) ELSE L_unknown

\* fault: the duplicate check never finds the URL
in_history_never(h, converted_url) == FALSE

\* fault: the duplicate check always finds the URL
in_history_always(h, converted_url) == TRUE

\* any(e.get("url", "") == converted_url for e in self.history)
in_history(h, converted_url) ==
    \E k \in 1..Len(h) : Get(h[k].url, <<>>) = converted_url

\* [e for e in self.history if e.get("type") == link_type]
entries_of(h, link_type) ==
    LET Keep(e) == e.type = link_type IN SelectSeq(h, Keep)

\* update_stats: the stats shown by the two widgets
stats_of(h) ==
    [shorts  |-> compute_stats_for(entries_of(h, "shorts")),
     regular |-> compute_stats_for(entries_of(h, "regular"))]

\* update_stats: combined_data, which save_stats_file writes to stats.json
combined_data(h) ==
    LET s == stats_of(h)
    IN  [shorts  |-> IF s.shorts # NoStats THEN s.shorts
                     ELSE [message |-> "No shorts conversions yet."],
         regular |-> IF s.regular # NoStats THEN s.regular
                     ELSE [message |-> "No regular conversions yet."]]

\* the classification of check_clipboard: the link type, "none" without one
link_type_of(current_text) ==
    IF shorts_pattern(current_text) # 0 THEN "shorts"
    ELSE IF normal_pattern(current_text) # 0 THEN "regular"
    ELSE IF youtu_pattern(current_text) # 0 THEN "regular"
    ELSE "none"

\* the converted_url of check_clipboard
converted_url_of(current_text) ==
    IF shorts_pattern(current_text) # 0 THEN convert_shorts_url(current_text)
    ELSE IF normal_pattern(current_text) # 0 THEN current_text
    ELSE IF youtu_pattern(current_text) # 0
         THEN L_canonical \o youtu_group1(current_text)
    ELSE <<>>

\* [e for e in self.history if e.get("url", "") != url]
without_url(h, url) ==
    LET Keep(e) == Get(e.url, <<>>) # url IN SelectSeq(h, Keep)

\* QListWidget.takeItem(row)
takeItem(items, row) ==
    SubSeq(items, 1, row - 1) \o SubSeq(items, row + 1, Len(items))

Op(kind, fetch, row) == [kind |-> kind, fetch |-> fetch, row |-> row]

\* __init__: load_history, then init_stats_tab (update_stats writes the
\* stats file); nothing is on the clipboard yet
Init ==
    /\ clipboard = <<>>
    /\ last_clipboard_content = <<>>
    /\ history_file \in StartupFiles
    /\ history = load_history(history_file)
    /\ history_list = load_items(history)
    /\ stats_widgets = stats_of(history)
    /\ stats_file = combined_data(history)
    /\ today = 1
    /\ appended_since_copy = 0
    /\ fetched_since_copy = 0
    /\ last_op = Op("other", "none", 0)
    /\ pc = "idle"

\* the user copies a text in another program
UserCopy(text) ==
    /\ pc = "idle"
    /\ clipboard' = text
    /\ appended_since_copy' = 0
    /\ fetched_since_copy' = 0
    /\ last_op' = Op("other", "none", 0)
    /\ UNCHANGED <<last_clipboard_content, history, history_list, history_file,
                   stats_file, stats_widgets, today, pc>>

\* midnight passes
NextDay ==
    /\ pc = "idle"
    /\ today < Len(Calendar)
    /\ today' = today + 1
    /\ last_op' = Op("other", "none", 0)
    /\ UNCHANGED <<clipboard, last_clipboard_content, history, history_list,
                   history_file, stats_file, stats_widgets,
                   appended_since_copy, fetched_since_copy, pc>>

\* the record check_clipboard appends
new_record(current_text, outcome) ==
    [title |-> get_video_title(converted_url_of(current_text), outcome),
     url   |-> converted_url_of(current_text),
     date  |-> strftime(Calendar[today]),
     type  |-> link_type_of(current_text)]

\* fault: no duplicate check before recording
is_new_no_dedup(current_text) ==
    /\ current_text # last_clipboard_content
    /\ link_type_of(current_text) # "none"

\* fault: no comparison with the last converted URL
is_new_no_marker(current_text) ==
    /\ link_type_of(current_text) # "none"
    /\ \A k \in 1..Len(history) : history[k].url # converted_url_of(current_text)

\* check_clipboard goes on to fetch the title and record the URL
is_new(current_text) ==
    /\ current_text # last_clipboard_content
    /\ link_type_of(current_text) # "none"
    /\ ~in_history(history, converted_url_of(current_text))

Saturating(n) == IF n < 2 THEN n + 1 ELSE n

\* check_clipboard up to the call of save_history: the record is appended
\* to the history and the list, and the URL written back to the clipboard
record_url(outcome) ==
    LET record == new_record(strip(clipboard), outcome)
    IN  /\ Len(history) < MaxHistory
        /\ history' = Append(history, record)
        /\ history_list' = Append(history_list, item_text(record.title, record.url))
        /\ last_clipboard_content' = record.url
        /\ clipboard' = record.url
        /\ appended_since_copy' = Saturating(appended_since_copy)
        /\ fetched_since_copy' = Saturating(fetched_since_copy)
        /\ last_op' = Op("tick", outcome.kind, 0)
        /\ UNCHANGED today

\* check_clipboard when it returns without recording anything
skip_tick ==
    /\ last_op' = Op("tick", "none", 0)
    /\ UNCHANGED <<clipboard, last_clipboard_content, history, history_list,
                   history_file, stats_file, stats_widgets, today,
                   appended_since_copy, fetched_since_copy, pc>>

\* save_history followed by update_stats, on the history as just changed
save_history_and_stats ==
    /\ history_file' = json_dump(history')
    /\ stats_widgets' = stats_of(history')
    /\ stats_file' = combined_data(history')

\* one timer tick: the whole of check_clipboard (a tick that records nothing
\* makes no fetch, so the outcome is left at one value)
check_clipboard(outcome) ==
    /\ pc = "idle"
    /\ IF is_new(strip(clipboard))
       THEN record_url(outcome) /\ save_history_and_stats /\ UNCHANGED pc
       ELSE outcome.kind = "ok" /\ skip_tick

\* show_context_menu, "Copy URL" on the current item
copy_url(row) ==
    /\ last_op' = Op("other", "none", 0)
    /\ clipboard' = split_last(history_list[row], L_sep)
    /\ appended_since_copy' = 0
    /\ fetched_since_copy' = 0
    /\ UNCHANGED <<last_clipboard_content, history, history_list,
                   history_file, stats_file, stats_widgets, today, pc>>

\* show_context_menu, "Delete" on the current item, up to save_history
delete_item(row) ==
    /\ last_op' = Op("delete", "none", row)
    /\ history_list' = takeItem(history_list, row)
    /\ history' = without_url(history, split_last(history_list[row], L_sep))
    /\ UNCHANGED <<clipboard, last_clipboard_content, today,
                   appended_since_copy, fetched_since_copy>>

\* show_context_menu without a current item, or with the menu dismissed
dismiss_menu ==
    /\ last_op' = Op("other", "none", 0)
    /\ UNCHANGED <<clipboard, last_clipboard_content, history, history_list,
                   history_file, stats_file, stats_widgets, today,
                   appended_since_copy, fetched_since_copy, pc>>

\* show_context_menu with the list's current item at `row` (0: none) and
\* the menu entry the user picked ("copy", "delete", or "dismiss")
show_context_menu(row, action) ==
    /\ pc = "idle"
    /\ IF row # 0 /\ action = "copy" THEN copy_url(row)
       ELSE IF row # 0 /\ action = "delete"
       THEN delete_item(row) /\ save_history_and_stats /\ UNCHANGED pc
       ELSE row = 0 /\ action = "dismiss" /\ dismiss_menu

Tick == \E outcome \in FetchOutcomes : check_clipboard(outcome)
Copy == \E text \in ClipboardTexts : UserCopy(text)
Menu == \E row \in 0..Len(history_list), action \in {"copy", "delete", "dismiss"} :
            show_context_menu(row, action)

Next == Tick \/ Copy \/ Menu \/ NextDay

Spec == Init /\ [][Next]_vars

(***************************************************************************)
(* The same program with save_history taken one file operation at a time,  *)
(* and the process liable to be killed between any two of them.            *)
(***************************************************************************)
\* check_clipboard up to the open() of save_history
begin_check_clipboard(outcome) ==
    /\ pc = "idle"
    /\ IF is_new(strip(clipboard))
       THEN /\ record_url(outcome)
            /\ pc' = "open"
            /\ UNCHANGED <<history_file, stats_file, stats_widgets>>
       ELSE outcome.kind = "ok" /\ skip_tick

\* show_context_menu up to the open() of save_history
begin_show_context_menu(row, action) ==
    /\ pc = "idle"
    /\ IF row # 0 /\ action = "copy" THEN copy_url(row)
       ELSE IF row # 0 /\ action = "delete"
       THEN /\ delete_item(row)
            /\ pc' = "open"
            /\ UNCHANGED <<history_file, stats_file, stats_widgets>>
       ELSE row = 0 /\ action = "dismiss" /\ dismiss_menu

\* open(HISTORY_FILE, "w"): the file is created or truncated
SaveOpen ==
    /\ pc = "open"
    /\ history_file' = [exists |-> TRUE, complete |-> FALSE, records |-> <<>>]
    /\ pc' = "dump"
    /\ UNCHANGED <<clipboard, last_clipboard_content, history, history_list,
                   stats_file, stats_widgets, today, appended_since_copy,
                   fetched_since_copy, last_op>>

\* json.dump: the text of the next record reaches the file
SaveWrite ==
    /\ pc = "dump"
    /\ Len(history_file.records) < Len(history)
    /\ history_file' = [history_file EXCEPT
                          !.records = Append(@, history[Len(@) + 1])]
    /\ UNCHANGED <<clipboard, last_clipboard_content, history, history_list,
                   stats_file, stats_widgets, today, appended_since_copy,
                   fetched_since_copy, last_op, pc>>

\* json.dump writes the end of the list and the with block closes the file
SaveClose ==
    /\ pc = "dump"
    /\ history_file.records = history
    /\ history_file' = json_dump(history)
    /\ pc' = "stats"
    /\ UNCHANGED <<clipboard, last_clipboard_content, history, history_list,
                   stats_file, stats_widgets, today, appended_since_copy,
                   fetched_since_copy, last_op>>

\* update_stats, at the end of save_history and again in the handler (the
\* second run recomputes the same stats)
SaveStats ==
    /\ pc = "stats"
    /\ stats_widgets' = stats_of(history)
    /\ stats_file' = combined_data(history)
    /\ pc' = "idle"
    /\ UNCHANGED <<clipboard, last_clipboard_content, history, history_list,
                   history_file, today, appended_since_copy,
                   fetched_since_copy, last_op>>

\* the process is killed (or the machine loses power)
Crash ==
    /\ pc # "crashed"
    /\ pc' = "crashed"
    /\ UNCHANGED <<clipboard, last_clipboard_content, history, history_list,
                   history_file, stats_file, stats_widgets, today,
                   appended_since_copy, fetched_since_copy, last_op>>

BeginTick == \E outcome \in FetchOutcomes : begin_check_clipboard(outcome)
BeginMenu == \E row \in 0..Len(history_list), action \in {"copy", "delete", "dismiss"} :
                 begin_show_context_menu(row, action)

NextCrash ==
    \/ BeginTick \/ Copy \/ BeginMenu \/ NextDay
    \/ SaveOpen \/ SaveWrite \/ SaveClose \/ SaveStats \/ Crash

SpecCrash == Init /\ [][NextCrash]_vars

(***************************************************************************)
(* The properties.  They describe URLs on their own terms, by the shape    *)
(* of the text, and not through the matchers of the program above.         *)
(***************************************************************************)
Schemes      == {L_http \o L_colon, L_https}
YoutubeHeads == {s \o w \o L_youtube : s \in Schemes, w \in {<<>>, L_www}}
ShortHeads   == {s \o L_youtu_be : s \in Schemes}

StartsWith(t, p) == Len(p) <= Len(t) /\ SubSeq(t, 1, Len(p)) = p

\* the longest run of id characters that follows the first n characters of t
IdAfter(t, n) ==
    LET e == CHOOSE e \in n..Len(t) :
                 /\ \A k \in (n + 1)..e : t[k] \in IdChars
                 /\ e = Len(t) \/ t[e + 1] \notin IdChars
    IN  SubSeq(t, n + 1, e)

\* t is p followed by a video id (and then by anything)
HasIdAfter(t, p) == StartsWith(t, p) /\ IdAfter(t, Len(p)) # <<>>

IsShortsUrl(t) == \E h \in YoutubeHeads : HasIdAfter(t, h \o L_shorts)
IsWatchUrl(t)  == \E h \in YoutubeHeads : HasIdAfter(t, h \o L_watch)
IsShortLink(t) == \E h \in ShortHeads : HasIdAfter(t, h)
IsYoutubeUrl(t) == IsShortsUrl(t) \/ IsWatchUrl(t) \/ IsShortLink(t)

\* s with every segment youtube.com/shorts/<id> turned into
\* youtube.com/watch?v=<id>
RECURSIVE EverySegmentAsWatch(_)
EverySegmentAsWatch(s) ==
    LET Starts == {p \in 1..Len(s) : HasIdAfter(SubSeq(s, p, Len(s)), L_youtube \o L_shorts)}
    IN  IF Starts = {} THEN s
        ELSE LET p  == CHOOSE p \in Starts : \A q \in Starts : p <= q
                 n  == p + Len(L_youtube) + Len(L_shorts) - 1
                 id == IdAfter(s, n)
             IN  SubSeq(s, 1, p - 1) \o L_youtube \o L_watch \o id
                   \o EverySegmentAsWatch(SubSeq(s, n + Len(id) + 1, Len(s)))

\* t, a Shorts URL, with its shorts/<id> segment turned into watch?v=<id>
\* and nothing else changed
ShortsSegmentAsWatch(t) ==
    LET h == CHOOSE h \in YoutubeHeads : StartsWith(t, h \o L_shorts)
    IN  h \o L_watch \o SubSeq(t, Len(h) + Len(L_shorts) + 1, Len(t))

\* the canonical watch URL of a short link
ShortLinkAsWatch(t) ==
    LET h == CHOOSE h \in ShortHeads : StartsWith(t, h)
    IN  L_canonical \o IdAfter(t, Len(h))

\* the URL under which the program records the text t
Normalized(t) ==
    IF IsShortsUrl(t) THEN EverySegmentAsWatch(t)
    ELSE IF IsShortLink(t) THEN ShortLinkAsWatch(t)
    ELSE t

Recorded(h, url) == \E k \in 1..Len(h) : h[k].url = url

\* the step is a tick, and the text it reads from the clipboard
TickStep     == last_op'.kind = "tick"
TickText     == strip(clipboard)
\* the step is a tick that appends a record
AppendStep   == TickStep /\ Len(history') = Len(history) + 1
LastRecord   == history'[Len(history')]
FetchFailed  == last_op'.fetch \in {"network_error", "parse_error", "no_title"}

\* C1: no two records of the history share a url.
C1_UniqueUrls ==
    \A i, j \in 1..Len(history) : i # j => history[i].url # history[j].url

\* a tick has just skipped a short link whose video is already recorded,
\* next to another record
C1_Witness ==
    /\ last_op = Op("tick", "none", 0)
    /\ clipboard = Text_youtu
    /\ Len(history) >= 2
    /\ Recorded(history, L_canonical \o Id_abc123)

\* C2, as claimed: an appended record has, for a Shorts URL, the text with
\* its shorts/<id> segment turned into watch?v=<id> and type shorts; for a
\* short link, https://www.youtube.com/watch?v=<id> and type regular; for a
\* watch URL, the text itself and type regular.
C2_AsClaimed ==
    [][AppendStep =>
         /\ IsShortsUrl(TickText) =>
              LastRecord.url = ShortsSegmentAsWatch(TickText) /\ LastRecord.type = "shorts"
         /\ IsShortLink(TickText) =>
              LastRecord.url = ShortLinkAsWatch(TickText) /\ LastRecord.type = "regular"
         /\ IsWatchUrl(TickText) =>
              LastRecord.url = TickText /\ LastRecord.type = "regular"]_vars

\* C2, amended: as claimed, except that for a Shorts URL every segment
\* youtube.com/shorts/<id> of the text is turned into
\* youtube.com/watch?v=<id>, not only the one the pattern matched.
C2_Normalization ==
    [][AppendStep =>
         /\ IsShortsUrl(TickText) =>
              /\ LastRecord.url = EverySegmentAsWatch(TickText)
              /\ \E h \in YoutubeHeads :
                    /\ StartsWith(TickText, h \o L_shorts)
                    /\ StartsWith(LastRecord.url,
                                  h \o L_watch \o IdAfter(TickText, Len(h \o L_shorts)))
              /\ LastRecord.type = "shorts"
         /\ IsShortLink(TickText) =>
              LastRecord.url = ShortLinkAsWatch(TickText) /\ LastRecord.type = "regular"
         /\ IsWatchUrl(TickText) =>
              LastRecord.url = TickText /\ LastRecord.type = "regular"]_vars

\* a Shorts URL with a second shorts segment in its tail has been recorded,
\* and so have a short link or a watch URL
C2_Witness ==
    /\ last_op.kind = "tick" /\ last_op.fetch # "none"
    /\ Len(history) = 2
    /\ history[2].url = EverySegmentAsWatch(strip(Text_shorts2))
    /\ history[2].url # ShortsSegmentAsWatch(strip(Text_shorts2))
    /\ history[1].type = "regular"

\* the cases in which C3 says a tick does nothing
NoOpCase(t) ==
    \/ t = last_clipboard_content
    \/ ~IsYoutubeUrl(t)
    \/ Recorded(history, Normalized(t))

\* C3: a tick whose trimmed clipboard text equals the last converted URL,
\* matches none of the patterns, or normalizes to a recorded url changes
\* nothing (history, clipboard, marker, history file, stats file) and
\* fetches no title.
C3_NoOpTick ==
    [][TickStep /\ NoOpCase(TickText) =>
         /\ UNCHANGED <<history, clipboard, last_clipboard_content,
                        history_file, stats_file>>
         /\ last_op'.fetch = "none"
         /\ fetched_since_copy' = fetched_since_copy]_vars

\* a tick has just skipped a Shorts URL that differs from the marker and
\* whose video is already recorded
C3_Witness ==
    /\ last_op = Op("tick", "none", 0)
    /\ clipboard = Text_shorts
    /\ strip(clipboard) # last_clipboard_content
    /\ Recorded(history, Normalized(strip(clipboard)))

\* C4: a tick whose title fetch fails still appends exactly one record,
\* for the normalized url and with the title "Unknown Title", writes that
\* url to the clipboard and saves the history.
C4_FetchFailure ==
    [][TickStep /\ FetchFailed =>
         /\ Len(history') = Len(history) + 1
         /\ SubSeq(history', 1, Len(history)) = history
         /\ LastRecord.title = L_unknown
         /\ LastRecord.url = Normalized(TickText)
         /\ clipboard' = Normalized(TickText)
         /\ history_file'.exists /\ history_file'.complete
         /\ history_file'.records = history']_vars

\* a record has just been appended after a fetch that failed
C4_Witness ==
    /\ last_op.kind = "tick"
    /\ last_op.fetch \in {"network_error", "parse_error", "no_title"}
    /\ history # <<>>
    /\ history[Len(history)].title = L_unknown

\* a record of the category has a date that parses
HasValidDate(h, category) ==
    \E k \in 1..Len(h) :
        /\ h[k].type = category
        /\ h[k].date \notin {None, <<>>}
        /\ strptime(h[k].date).ok

\* C5: whenever the poller is idle the history file holds the in-memory
\* history (a missing file counting as empty), and the stats file holds
\* the statistics of that history, the placeholder message standing for a
\* category without a validly dated record.
C5_IdleFilesCurrent ==
    pc = "idle" =>
        /\ history_file.exists => history_file.complete
        /\ history_file.records = history
        /\ stats_file = combined_data(history)
        /\ ~HasValidDate(history, "shorts") <=>
              stats_file.shorts = [message |-> "No shorts conversions yet."]
        /\ ~HasValidDate(history, "regular") <=>
              stats_file.regular = [message |-> "No regular conversions yet."]

\* the poller is idle again after a tick that recorded a second URL
C5_Witness ==
    /\ pc = "idle"
    /\ last_op.kind = "tick" /\ last_op.fetch # "none"
    /\ Len(history) = 2
    /\ history_file.records = history
    /\ stats_file.regular # [message |-> "No regular conversions yet."]

\* C6, as claimed: whatever step is taken, the history file is left as it
\* was or holds the complete history as it is after the step.
C6_AtomicRewrite ==
    [][\/ history_file' = history_file
       \/ history_file' = [exists |-> TRUE, complete |-> TRUE, records |-> history']]_vars

\* the records of a category that count for its statistics, by position
ValidOf(category) ==
    {k \in 1..Len(history) :
        /\ history[k].type = category
        /\ history[k].date \notin {None, <<>>}
        /\ strptime(history[k].date).ok}

DayOf(k) == strptime(history[k].date)

OnDay(category, day) == {k \in ValidOf(category) : DayOf(k) = day}

FirstOn(category, day) ==
    CHOOSE k \in OnDay(category, day) : \A j \in OnDay(category, day) : k <= j

C8_OncePerCopy ==
    [][/\ appended_since_copy' <= 1
       /\ fetched_since_copy' <= 1
       /\ AppendStep => clipboard' = LastRecord.url]_vars

\* a URL was recorded, its entry deleted, and a later tick has left it alone
C8_Witness ==
    /\ last_op = Op("tick", "none", 0)
    /\ appended_since_copy = 1
    /\ fetched_since_copy = 1
    /\ clipboard = last_clipboard_content
    /\ ~Recorded(history, clipboard)

\* the list shows the history: one item per record, in order, made of the
\* record's title and url
ListShows(items, h) ==
    /\ Len(items) = Len(h)
    /\ \A k \in 1..Len(h) : items[k] = h[k].title \o L_sep \o h[k].url

\* h without the records whose url is the url of its k-th record
WithoutEntry(h, k) ==
    LET Others(e) == e.url # h[k].url IN SelectSeq(h, Others)

\* C9, as claimed: Delete on a displayed entry removes the records with
\* that entry's url and no other, and the list keeps showing the history.
C9_DeleteEntry ==
    [][last_op'.kind = "delete" /\ ListShows(history_list, history) =>
         /\ history' = WithoutEntry(history, last_op'.row)
         /\ ListShows(history_list', history')]_vars

\* C10, as claimed: after a tick on a trimmed clipboard text that is a
\* YouTube URL, the history has a record with the normalized url.
C10_AsClaimed ==
    [][TickStep /\ IsYoutubeUrl(TickText) =>
         Recorded(history', Normalized(TickText))]_vars

\* C10, amended: after a tick on a trimmed clipboard text that is a YouTube
\* URL other than the last converted URL, the history has a record with the
\* normalized url.
C10_RecordedUnlessMarker ==
    [][TickStep /\ IsYoutubeUrl(TickText) /\ TickText # last_clipboard_content =>
         Recorded(history', Normalized(TickText))]_vars

\* a URL that an earlier run recorded and the user then deleted has just
\* been recorded again, after the records that were left
C10_Witness ==
    /\ last_op.kind = "tick" /\ last_op.fetch # "none"
    /\ Len(history) = 3
    /\ history[2] = LoadedHistory[3]
    /\ history[3].url = LoadedHistory[2].url
    /\ history[3].url = Normalized(strip(Text_shorts))

=============================================================================
